---- MODULE Spec2Model ----
(***************************************************************************)
(* A model of the scripting-language front end in src/lang: the lexer, the *)
(* recursive-descent parser, the tree-walking evaluator (Node.eval) and    *)
(* the C emitter (Node.compile), both working over a SymbolTable.          *)
(*                                                                         *)
(* One behaviour takes one source text through the lexer and the parser    *)
(* and then through both entry points, interpreter.py and compiler.py,     *)
(* each with its own fresh SymbolTable, and finally builds and runs the    *)
(* emitted C text.  Lexing and parsing are deterministic, so the two entry *)
(* points share their result.                                              *)
(*                                                                         *)
(* Characters are one-character strings, a source text is a sequence of    *)
(* them.  Python's 0-based positions are kept, so source_code[pos] of the  *)
(* code is source_code[pos + 1] here.                                      *)
(***************************************************************************)
EXTENDS Integers, Sequences, FiniteSets, TLC

(***************************************************************************)
(* consts.py                                                               *)
(***************************************************************************)
Letters ==
    {"a","b","c","d","e","f","g","h","i","j","k","l","m","n","o","p","q","r",
     "s","t","u","v","w","x","y","z","A","B","C","D","E","F","G","H","I","J",
     "K","L","M","N","O","P","Q","R","S","T","U","V","W","X","Y","Z"}

Digits == {"0","1","2","3","4","5","6","7","8","9"}

ID_VALID_START_CHARS == Letters \cup {"_"}

ID_VALID_CHARS == ID_VALID_START_CHARS \cup Digits

KEYWORDS == {"let", "if", "elif", "else", "and", "or", "not", "repeat"}

(***************************************************************************)
(* lexer.py                                                                *)
(***************************************************************************)
\* The value of self.char once the text is exhausted.
None == "None"

\* TokenType.get: the member whose value is the given text, else None.
\* Members are named by their Python names.
TokenType_get(value) ==
    CASE value = "let"    -> "LET"
      [] value = "if"     -> "IF"
      [] value = "elif"   -> "ELIF"
      [] value = "else"   -> "ELSE"
      [] value = "ID"     -> "ID"
      [] value = "STRING" -> "STRING"
      [] value = "INT"    -> "INT"
      [] value = "repeat" -> "REPEAT"
      [] value = "{"      -> "L_BRACE"
      [] value = "}"      -> "R_BRACE"
      [] value = "("      -> "L_PAREN"
      [] value = ")"      -> "R_PAREN"
      [] value = "<"      -> "LT"
      [] value = ">"      -> "GT"
      [] value = "="      -> "EQUAL"
      [] value = "+"      -> "PLUS"
      [] value = "-"      -> "MINUS"
      [] value = "*"      -> "MUL"
      [] value = "/"      -> "DIV"
      [] value = ";"      -> "SEMICOLON"
      [] value = ":"      -> "COLON"
      [] value = "?"      -> "TERNARY"
      [] OTHER            -> None

Token(type, value, line, col) ==
    [type |-> type, value |-> value, line |-> line, col |-> col]

\* str.isdigit and str.isspace on the characters a source text is drawn from.
isdigit(c) == c \in Digits

isspace(c) == c \in {" ", "\t", "\n", "\r", "\f"}

\* The digit that writes a number below 10.
DigitChar(n) ==
    CASE n = 0 -> "0" [] n = 1 -> "1" [] n = 2 -> "2" [] n = 3 -> "3"
      [] n = 4 -> "4" [] n = 5 -> "5" [] n = 6 -> "6" [] n = 7 -> "7"
      [] n = 8 -> "8" [] n = 9 -> "9"

\* int() of one decimal digit.
DigitValue(c) ==
    CASE c = "0" -> 0 [] c = "1" -> 1 [] c = "2" -> 2 [] c = "3" -> 3
      [] c = "4" -> 4 [] c = "5" -> 5 [] c = "6" -> 6 [] c = "7" -> 7
      [] c = "8" -> 8 [] c = "9" -> 9

\* The lexer's cursor: [pos, char, line, column].
Lexer(src) == [pos |-> 0, char |-> src[1], line |-> 1, column |-> 1]

\* Lexer.advance, as the code has it: on a newline the line is bumped and the
\* column reset to 1, and then the column is bumped like after any character.
advance(src, lx) ==
    LET nl == lx.char = "\n"
        line1 == IF nl THEN lx.line + 1 ELSE lx.line
        column1 == IF nl THEN 1 ELSE lx.column
        pos1 == lx.pos + 1
    IN  [pos |-> pos1, line |-> line1, column |-> column1 + 1,
         char |-> IF pos1 >= Len(src) THEN None ELSE src[pos1 + 1]]

RECURSIVE skip_whitespace(_, _)
skip_whitespace(src, lx) ==
    IF lx.char # None /\ isspace(lx.char)
    THEN skip_whitespace(src, advance(src, lx))
    ELSE lx

RECURSIVE skip_comment(_, _)
skip_comment(src, lx) ==
    IF lx.char # None /\ lx.char # "\n"
    THEN skip_comment(src, advance(src, lx))
    ELSE lx

\* Lexer.get_chars: the characters taken while they are in `allowed`, and the
\* cursor after them.
RECURSIVE get_chars(_, _, _, _)
get_chars(src, lx, allowed, taken) ==
    IF lx.char # None /\ lx.char \in allowed
    THEN get_chars(src, advance(src, lx), allowed, Append(taken, lx.char))
    ELSE [chars |-> taken, lx |-> lx]

\* "".join(chars)
RECURSIVE join_chars(_)
join_chars(chars) ==
    IF chars = <<>> THEN "" ELSE Head(chars) \o join_chars(Tail(chars))

\* int("".join(chars)) of decimal digits.
RECURSIVE int_of(_)
int_of(chars) ==
    IF chars = <<>> THEN 0
    ELSE 10 * int_of(SubSeq(chars, 1, Len(chars) - 1)) + DigitValue(chars[Len(chars)])

(***************************************************************************)
(* ast.py: the nodes the parser builds.  `standalone` is LogMixin's flag.  *)
(***************************************************************************)
Module(stats) == [kind |-> "Module", statements |-> stats]

Reference(name) == [kind |-> "Reference", name |-> name, standalone |-> FALSE]

Literal(value) == [kind |-> "Literal", value |-> value, standalone |-> FALSE]

ArithmeticOp(left, op, right) ==
    [kind |-> "ArithmeticOp", left |-> left, op |-> op, right |-> right,
     standalone |-> FALSE]

CompOp(left, op, right) ==
    [kind |-> "CompOp", left |-> left, op |-> op, right |-> right]

Assignment(name, value) == [kind |-> "Assignment", name |-> name, value |-> value]

Ternary(condition, if_truthy, if_falsy) ==
    [kind |-> "Ternary", condition |-> condition, if_truthy |-> if_truthy,
     if_falsy |-> if_falsy]

IfStatement(condition, block, elseif_statements, else_block) ==
    [kind |-> "IfStatement", condition |-> condition, block |-> block,
     elseif_statements |-> elseif_statements, else_block |-> else_block]

Repeat(times, block) == [kind |-> "Repeat", times |-> times, block |-> block]

NoNode == [kind |-> "None"]

(***************************************************************************)
(* parser.py.  Every parsing method returns [err, node | nodes, pos]: the  *)
(* exception it raised ("" when none), what it built and the parser's pos  *)
(* after it.                                                               *)
(***************************************************************************)
Ok(node, pos) == [err |-> "", node |-> node, pos |-> pos]

Raise(err, pos) == [err |-> err, node |-> NoNode, pos |-> pos]

\* A call that may raise: the exception of `r` propagates, otherwise the
\* method goes on with `r`.
Try(r, Continue(_)) == IF r.err # "" THEN r ELSE Continue(r)

\* Parser.get_token returns a token exactly when pos < len(tokens).
has_token(toks, pos) == pos < Len(toks)

get_token(toks, pos) == toks[pos + 1]

\* Parser.eat
eat(toks, pos, token_types) ==
    IF ~has_token(toks, pos) THEN Raise("EOFError", pos)
    ELSE IF get_token(toks, pos).type \notin token_types THEN Raise("ValueError", pos)
    ELSE Ok(NoNode, pos + 1)

\* str * int and int * int, as `token.value * factor` meets them (factor is 1 or -1).
times_factor(value, type, factor_) ==
    IF type = "INT" THEN value * factor_
    ELSE IF factor_ >= 1 THEN value ELSE ""

\* TOKEN_NODE_MAPPING[token.type](value)
TOKEN_NODE_MAPPING(type, value) ==
    IF type = "INT" THEN Literal(value) ELSE Reference(value)

RECURSIVE factor(_, _), mult(_, _), mult_while(_, _, _), expr(_, _), expr_while(_, _, _)

\* Parser.factor.  `token` stays the token seen on entry, so after a MINUS was
\* eaten the PLUS test still looks at that MINUS.
factor(toks, pos) ==
    IF ~has_token(toks, pos) THEN Raise("ValueError", pos)
    ELSE
      LET token == get_token(toks, pos) IN
      IF token.type = "L_PAREN"
      THEN Try(expr(toks, pos + 1), LAMBDA r :
           Try(eat(toks, r.pos, {"R_PAREN"}), LAMBDA e :
           Ok(r.node, e.pos)))
      ELSE LET factor_ == IF token.type = "MINUS" THEN -1 ELSE 1
               \* self.eat(TokenType.MINUS), then self.eat(TokenType.PLUS): each
               \* is guarded by the type of `token` and so cannot raise.
               pos1 == IF token.type = "MINUS" THEN pos + 1 ELSE pos
               pos2 == IF token.type = "PLUS" THEN pos1 + 1 ELSE pos1
           IN  Try(eat(toks, pos2, {"INT", "ID"}), LAMBDA e :
               Ok(TOKEN_NODE_MAPPING(get_token(toks, pos2).type,
                                     times_factor(get_token(toks, pos2).value,
                                                  get_token(toks, pos2).type,
                                                  factor_)),
                  e.pos))

\* The while loop of Parser.mult.
mult_while(toks, node, pos) ==
    IF has_token(toks, pos) /\ get_token(toks, pos).type \in {"MUL", "DIV"}
    THEN Try(factor(toks, pos + 1), LAMBDA r :
         mult_while(toks, ArithmeticOp(node, get_token(toks, pos).value, r.node), r.pos))
    ELSE Ok(node, pos)

mult(toks, pos) ==
    Try(factor(toks, pos), LAMBDA r : mult_while(toks, r.node, r.pos))

\* The while loop of Parser.expr.
expr_while(toks, node, pos) ==
    IF has_token(toks, pos) /\ get_token(toks, pos).type \in {"PLUS", "MINUS"}
    THEN Try(mult(toks, pos + 1), LAMBDA r :
         expr_while(toks, ArithmeticOp(node, get_token(toks, pos).value, r.node), r.pos))
    ELSE Ok(node, pos)

expr(toks, pos) ==
    Try(mult(toks, pos), LAMBDA r : expr_while(toks, r.node, r.pos))

\* The while loop of Parser.comparison_expr: it goes on for as long as the
\* next token is a comparison operator.
RECURSIVE comparison_while(_, _, _)
comparison_while(toks, node, pos) ==
    IF has_token(toks, pos) /\ get_token(toks, pos).type \in {"GT", "LT"}
    THEN Try(expr(toks, pos + 1), LAMBDA r :
         comparison_while(toks, CompOp(node, get_token(toks, pos).value, r.node), r.pos))
    ELSE Ok(node, pos)

comparison_expr(toks, pos) ==
    Try(expr(toks, pos), LAMBDA r : comparison_while(toks, r.node, r.pos))

\* Parser.ternary, called with the condition already parsed.
ternary(toks, pos, condition) ==
    Try(eat(toks, pos, {"TERNARY"}), LAMBDA e1 :
    Try(expr(toks, e1.pos), LAMBDA t :
    Try(eat(toks, t.pos, {"COLON"}), LAMBDA e2 :
    Try(expr(toks, e2.pos), LAMBDA f :
    Ok(Ternary(condition, t.node, f.node), f.pos)))))

\* The value of Parser.assignment: the comparison, or the ternary it opens.
assignment_value(toks, c) ==
    IF has_token(toks, c.pos) /\ get_token(toks, c.pos).type = "TERNARY"
    THEN ternary(toks, c.pos, c.node)
    ELSE c

\* Parser.assignment
assignment(toks, pos) ==
    Try(eat(toks, pos, {"LET"}), LAMBDA e1 :
    Try(eat(toks, e1.pos, {"ID"}), LAMBDA e2 :
    Try(eat(toks, e2.pos, {"EQUAL"}), LAMBDA e3 :
    Try(comparison_expr(toks, e3.pos), LAMBDA c :
    Try(assignment_value(toks, c), LAMBDA value :
    IF value.node.kind = "CompOp"
    THEN Raise("ValueError", value.pos)
    ELSE Ok(Assignment(get_token(toks, e1.pos).value, value.node), value.pos))))))

RECURSIVE statements(_, _, _, _), repeat(_, _), if_statement(_, _), elif_while(_, _, _)

\* Parser.statements; `cond` is "True" (the default condition) or
\* "NOT_R_BRACE", `stats` the list built so far.  Returns its list as `node`.
statements(toks, pos, cond, stats) ==
    IF ~has_token(toks, pos)
       \/ (cond = "NOT_R_BRACE" /\ get_token(toks, pos).type = "R_BRACE")
    THEN Ok(stats, pos)
    ELSE
      LET t_type == get_token(toks, pos).type IN
      IF t_type \in {"INT", "ID", "L_PAREN"}
      THEN Try(expr(toks, pos), LAMBDA r :
           Try(eat(toks, r.pos, {"SEMICOLON"}), LAMBDA e :
           statements(toks, e.pos, cond,
                      Append(stats, [r.node EXCEPT !.standalone = TRUE]))))
      ELSE IF t_type = "LET"
      THEN Try(assignment(toks, pos), LAMBDA r :
           Try(eat(toks, r.pos, {"SEMICOLON"}), LAMBDA e :
           statements(toks, e.pos, cond, Append(stats, r.node))))
      ELSE IF t_type = "REPEAT"
      THEN Try(repeat(toks, pos), LAMBDA r :
           statements(toks, r.pos, cond, Append(stats, r.node)))
      ELSE IF t_type = "IF"
      THEN Try(if_statement(toks, pos), LAMBDA r :
           statements(toks, r.pos, cond, Append(stats, r.node)))
      ELSE Raise("ValueError", pos)

\* Parser.repeat
repeat(toks, pos) ==
    Try(eat(toks, pos, {"REPEAT"}), LAMBDA e1 :
    Try(expr(toks, e1.pos), LAMBDA times :
    Try(eat(toks, times.pos, {"L_BRACE"}), LAMBDA e2 :
    Try(statements(toks, e2.pos, "NOT_R_BRACE", <<>>), LAMBDA block :
    Try(eat(toks, block.pos, {"R_BRACE"}), LAMBDA e3 :
    Ok(Repeat(times.node, block.node), e3.pos))))))

\* The `while ... is TokenType.ELIF` loop of Parser.if_statement: each turn
\* calls if_statement again, which eats the elif and everything after it that
\* it can.  Returns the list of elif nodes as `node`.
elif_while(toks, pos, elif_statements) ==
    IF has_token(toks, pos) /\ get_token(toks, pos).type = "ELIF"
    THEN Try(if_statement(toks, pos), LAMBDA r :
         elif_while(toks, r.pos, Append(elif_statements, r.node)))
    ELSE Ok(elif_statements, pos)

\* Parser.if_statement
if_statement(toks, pos) ==
    Try(eat(toks, pos, {"IF", "ELIF"}), LAMBDA e1 :
    Try(comparison_expr(toks, e1.pos), LAMBDA condition :
    Try(eat(toks, condition.pos, {"L_BRACE"}), LAMBDA e2 :
    Try(statements(toks, e2.pos, "NOT_R_BRACE", <<>>), LAMBDA stats :
    Try(eat(toks, stats.pos, {"R_BRACE"}), LAMBDA e3 :
    Try(elif_while(toks, e3.pos, <<>>), LAMBDA elifs :
    IF has_token(toks, elifs.pos) /\ get_token(toks, elifs.pos).type = "ELSE"
    THEN Try(eat(toks, elifs.pos + 1, {"L_BRACE"}), LAMBDA e4 :
         Try(statements(toks, e4.pos, "NOT_R_BRACE", <<>>), LAMBDA else_block :
         Try(eat(toks, else_block.pos, {"R_BRACE"}), LAMBDA e5 :
         Ok(IfStatement(condition.node, stats.node, elifs.node, else_block.node),
            e5.pos))))
    ELSE Ok(IfStatement(condition.node, stats.node, elifs.node, <<>>),
            elifs.pos)))))))

\* Parser.parse
parse(toks) ==
    Try(statements(toks, 0, "True", <<>>), LAMBDA stats :
    Ok(Module(stats.node), stats.pos))

(***************************************************************************)
(* ast.py: evaluation.  An environment (SymbolTable.symbols) is a function *)
(* from the names bound so far to their values.  A comparison's bool is    *)
(* the integer it is in Python (True = 1, False = 0).                      *)
(***************************************************************************)
SymbolTable == << >>

\* SymbolTable.add
add(env, name, value) ==
    [k \in DOMAIN env \cup {name} |-> IF k = name THEN value ELSE env[k]]

\* `self.symbols.get(name) is None`
unbound(env, name) == name \notin DOMAIN env

\* The ValueError of SymbolTable.get_or_raise.
NotFound(name) == "Variable " \o name \o " not found"

\* ARITHMETIC_OP_MAPPINGS; "/" is Python's real division, kept as the
\* quotient it denotes.
ARITHMETIC_OP_MAPPINGS(op, x, y) ==
    CASE op = "+" -> x + y
      [] op = "-" -> x - y
      [] op = "*" -> x * y
      [] op = "/" -> [num |-> x, den |-> y]

\* COMP_OP_MAPPINGS
COMP_OP_MAPPINGS(op, x, y) ==
    CASE op = ">" -> IF x > y THEN 1 ELSE 0
      [] op = "<" -> IF x < y THEN 1 ELSE 0

Value(v, out) == [err |-> "", value |-> v, out |-> out]

Error(err, out) == [err |-> err, value |-> 0, out |-> out]

\* LogMixin.log: the lines printed so far, plus the value when standalone.
log(node, value, out) == IF node.standalone THEN Append(out, value) ELSE out

\* Reference.eval, Literal.eval, ArithmeticOp.eval, CompOp.eval, Ternary.eval:
\* [err, value, out] with the exception raised ("" when none), the value and
\* the lines printed on the way.
RECURSIVE eval(_, _)

\* A Ternary.eval that evaluates both branches before it chooses.
Ternary_eval_both(node, env) ==
    LET c == eval(node.condition, env) IN
    IF c.err # "" THEN c
    ELSE LET t == eval(node.if_truthy, env)
             f == eval(node.if_falsy, env)
         IN  IF t.err # "" THEN Error(t.err, c.out \o t.out)
             ELSE IF f.err # "" THEN Error(f.err, c.out \o t.out \o f.out)
             ELSE Value(IF c.value # 0 THEN t.value ELSE f.value,
                        c.out \o t.out \o f.out)

\* Ternary.eval
Ternary_eval(node, env) ==
    LET c == eval(node.condition, env) IN
    IF c.err # "" THEN c
    ELSE LET b == IF c.value # 0 THEN eval(node.if_truthy, env)
                  ELSE eval(node.if_falsy, env)
         IN  IF b.err # "" THEN Error(b.err, c.out \o b.out)
             ELSE Value(b.value, c.out \o b.out)

eval(node, env) ==
    CASE node.kind = "Reference" ->
           IF unbound(env, node.name) THEN Error(NotFound(node.name), <<>>)
           ELSE Value(env[node.name], log(node, env[node.name], <<>>))
      [] node.kind = "Literal" ->
           Value(node.value, log(node, node.value, <<>>))
      [] node.kind = "ArithmeticOp" ->
           LET l == eval(node.left, env) IN
           IF l.err # "" THEN l
           ELSE LET r == eval(node.right, env) IN
                IF r.err # "" THEN Error(r.err, l.out \o r.out)
                ELSE LET v == ARITHMETIC_OP_MAPPINGS(node.op, l.value, r.value)
                     IN  Value(v, log(node, v, l.out \o r.out))
      [] node.kind = "CompOp" ->
           LET l == eval(node.left, env) IN
           IF l.err # "" THEN l
           ELSE LET r == eval(node.right, env) IN
                IF r.err # "" THEN Error(r.err, l.out \o r.out)
                ELSE Value(COMP_OP_MAPPINGS(node.op, l.value, r.value), l.out \o r.out)
      [] node.kind = "Ternary" -> Ternary_eval(node, env)

(***************************************************************************)
(* The state.                                                              *)
(***************************************************************************)
VARIABLES
    pc,            \* where the run is: "tokenize", "parse", "interpreter",
                   \* "eval", "compiler", "compile", "gcc", "done"
    source_code,   \* Lexer.source_code
    pos,           \* Lexer.pos
    char,          \* Lexer.char
    line,          \* Lexer.line
    column,        \* Lexer.column
    tokens,        \* the list Lexer.tokenize builds
    lex_err,       \* the exception tokenize raised, "" when none
    parse_err,     \* the exception Parser.parse raised, "" when none
    mod,           \* the Module Parser.parse returned
    eval_env,      \* interpreter.py's sym_table
    eval_stack,    \* the calls of Node.eval in progress, innermost last
    ret,           \* what the IfStatement.eval that returned last returned
    stdout,        \* the lines interpreter.py printed
    eval_err,      \* the exception Module.eval raised, "" when none
    compile_env,   \* compiler.py's sym_table
    compile_stack, \* the calls of Node.compile in progress, innermost last
    code,          \* the lines emitted so far
    compile_err,   \* the exception Module.compile raised, "" when none
    gcc_err,       \* gcc rejected out.c
    main_out       \* the lines ./main printed

lexer_vars == <<source_code, pos, char, line, column, tokens, lex_err>>

parser_vars == <<parse_err, mod>>

eval_vars == <<eval_env, eval_stack, ret, stdout, eval_err>>

compile_vars == <<compile_env, compile_stack, code, compile_err>>

run_vars == <<gcc_err, main_out>>

vars == <<pc, lexer_vars, parser_vars, eval_vars, compile_vars, run_vars>>

(***************************************************************************)
(* Lexer.tokenize: one action for each branch of its loop.                 *)
(***************************************************************************)
cursor == [pos |-> pos, char |-> char, line |-> line, column |-> column]

SetCursor(lx) ==
    /\ pos' = lx.pos
    /\ char' = lx.char
    /\ line' = lx.line
    /\ column' = lx.column

LexInt ==
    /\ pc = "tokenize"
    /\ char # None
    /\ isdigit(char)
    /\ LET got == get_chars(source_code, cursor, Digits, <<>>) IN
       /\ tokens' = Append(tokens, Token("INT", int_of(got.chars), line, column))
       /\ SetCursor(got.lx)
    /\ UNCHANGED <<pc, source_code, lex_err, parser_vars, eval_vars, compile_vars, run_vars>>

LexIdentifier ==
    /\ pc = "tokenize"
    /\ char # None
    /\ ~isdigit(char)
    /\ char \in ID_VALID_START_CHARS
    /\ LET got == get_chars(source_code, cursor, ID_VALID_CHARS, <<>>)
           identifier == join_chars(got.chars)
           t_type == IF identifier \in KEYWORDS THEN TokenType_get(identifier) ELSE "ID"
       IN  /\ tokens' = Append(tokens, Token(t_type, identifier, line, column))
           /\ SetCursor(got.lx)
    /\ UNCHANGED <<pc, source_code, lex_err, parser_vars, eval_vars, compile_vars, run_vars>>

LexPunctuation ==
    /\ pc = "tokenize"
    /\ char # None
    /\ ~isdigit(char)
    /\ char \notin ID_VALID_START_CHARS
    /\ TokenType_get(char) # None
    /\ tokens' = Append(tokens, Token(TokenType_get(char), char, line, column))
    /\ SetCursor(advance(source_code, cursor))
    /\ UNCHANGED <<pc, source_code, lex_err, parser_vars, eval_vars, compile_vars, run_vars>>

LexWhitespace ==
    /\ pc = "tokenize"
    /\ char # None
    /\ ~isdigit(char)
    /\ char \notin ID_VALID_START_CHARS
    /\ TokenType_get(char) = None
    /\ isspace(char)
    /\ SetCursor(skip_whitespace(source_code, cursor))
    /\ UNCHANGED <<pc, source_code, tokens, lex_err, parser_vars, eval_vars, compile_vars, run_vars>>

LexComment ==
    /\ pc = "tokenize"
    /\ char # None
    /\ ~isdigit(char)
    /\ char \notin ID_VALID_START_CHARS
    /\ TokenType_get(char) = None
    /\ ~isspace(char)
    /\ char = "#"
    /\ SetCursor(skip_comment(source_code, cursor))
    /\ UNCHANGED <<pc, source_code, tokens, lex_err, parser_vars, eval_vars, compile_vars, run_vars>>

LexError ==
    /\ pc = "tokenize"
    /\ char # None
    /\ ~isdigit(char)
    /\ char \notin ID_VALID_START_CHARS
    /\ TokenType_get(char) = None
    /\ ~isspace(char)
    /\ char # "#"
    /\ lex_err' = "ValueError"
    /\ pc' = "done"
    /\ UNCHANGED <<source_code, pos, char, line, column, tokens, parser_vars, eval_vars, compile_vars, run_vars>>

LexReturn ==
    /\ pc = "tokenize"
    /\ char = None
    /\ pc' = "parse"
    /\ UNCHANGED <<lexer_vars, parser_vars, eval_vars, compile_vars, run_vars>>

(***************************************************************************)
(* Parser(tokens).parse()                                                  *)
(***************************************************************************)
Parse ==
    /\ pc = "parse"
    /\ LET r == parse(tokens) IN
       /\ parse_err' = r.err
       /\ mod' = r.node
       /\ pc' = IF r.err = "" THEN "interpreter" ELSE "done"
    /\ UNCHANGED <<lexer_vars, eval_vars, compile_vars, run_vars>>

(***************************************************************************)
(* interpreter.py: mod.eval(sym_table).  The calls of eval on statements   *)
(* are kept on a stack of frames [node, stage, i, n, it]: the node whose   *)
(* eval is running, where it is, the index of its next child in the list   *)
(* it walks and, for a Repeat, the length of its range and the turns done. *)
(***************************************************************************)
Frame(node, stage, i, n, it) ==
    [node |-> node, stage |-> stage, i |-> i, n |-> n, it |-> it]

top(stack) == stack[Len(stack)]

pop(stack) == SubSeq(stack, 1, Len(stack) - 1)

set_top(stack, f) == [stack EXCEPT ![Len(stack)] = f]

\* The list of statements a frame walks in its stage.
list_of(f) ==
    CASE f.node.kind = "Module" -> f.node.statements
      [] f.node.kind = "Repeat" -> f.node.block
      [] f.node.kind = "IfStatement" ->
           IF f.stage = "else" THEN f.node.else_block ELSE f.node.block

\* The frame is about to run a statement of its list.
at_child(f) ==
    /\ f.stage \in {"statements", "block", "else"}
    /\ f.i <= Len(list_of(f))

child(f) == list_of(f)[f.i]

step(f) == [f EXCEPT !.i = @ + 1]

at_end(f) ==
    /\ f.stage \in {"statements", "block", "else"}
    /\ f.i > Len(list_of(f))

\* len(range(v))
range_len(v) == IF v > 0 THEN v ELSE 0

\* Repeat.eval: the range built on entry has no turn left.
Repeat_done(f, env) ==
    /\ f.node.kind = "Repeat"
    /\ f.it >= f.n

\* The eval of the frame is about to run a statement of its list.
eval_child(f) == at_child(f) /\ ~Repeat_done(f, eval_env)

\* An exception leaves Module.eval: the interpreter is over.
EvalRaise(err, out) ==
    /\ eval_err' = err
    /\ stdout' = stdout \o out
    /\ eval_stack' = <<>>
    /\ pc' = "compiler"
    /\ UNCHANGED <<eval_env, ret>>

\* interpreter.py line 27
EvalModule ==
    /\ pc = "interpreter"
    /\ pc' = "eval"
    /\ eval_stack' = <<Frame(mod, "statements", 1, 0, 0)>>
    /\ UNCHANGED <<lexer_vars, parser_vars, compile_vars, run_vars, eval_env, ret, stdout, eval_err>>

\* A statement that is a standalone expression.
EvalExpression ==
    /\ pc = "eval"
    /\ eval_child(top(eval_stack))
    /\ child(top(eval_stack)).kind \in {"Reference", "Literal", "ArithmeticOp"}
    /\ LET r == eval(child(top(eval_stack)), eval_env) IN
       IF r.err # "" THEN EvalRaise(r.err, r.out)
       ELSE /\ stdout' = stdout \o r.out
            /\ eval_stack' = set_top(eval_stack, step(top(eval_stack)))
            /\ UNCHANGED <<pc, eval_env, ret, eval_err>>
    /\ UNCHANGED <<lexer_vars, parser_vars, compile_vars, run_vars>>

\* Assignment.eval
EvalAssignment ==
    /\ pc = "eval"
    /\ eval_child(top(eval_stack))
    /\ child(top(eval_stack)).kind = "Assignment"
    /\ LET node == child(top(eval_stack))
           r == eval(node.value, eval_env)
       IN  IF r.err # "" THEN EvalRaise(r.err, r.out)
           ELSE /\ eval_env' = add(eval_env, node.name, r.value)
                /\ stdout' = stdout \o r.out
                /\ eval_stack' = set_top(eval_stack, step(top(eval_stack)))
                /\ UNCHANGED <<pc, ret, eval_err>>
    /\ UNCHANGED <<lexer_vars, parser_vars, compile_vars, run_vars>>

\* The start of IfStatement.eval on `node`, called from the frames `stack`:
\* the condition is evaluated and the call is in its block, or past it.
EvalIfEnter(node, stack) ==
    LET c == eval(node.condition, eval_env) IN
    IF c.err # "" THEN EvalRaise(c.err, c.out)
    ELSE /\ eval_stack' = Append(stack, Frame(node, IF c.value # 0 THEN "block" ELSE "elif",
                                              1, 0, 0))
         /\ stdout' = stdout \o c.out
         /\ UNCHANGED <<pc, eval_env, ret, eval_err>>

\* IfStatement.eval called on a statement of a list.
EvalIfStatement ==
    /\ pc = "eval"
    /\ eval_child(top(eval_stack))
    /\ child(top(eval_stack)).kind = "IfStatement"
    /\ EvalIfEnter(child(top(eval_stack)), set_top(eval_stack, step(top(eval_stack))))
    /\ UNCHANGED <<lexer_vars, parser_vars, compile_vars, run_vars>>

\* A conditional whose elifs are tried even though its own block ran.
EvalIfBlockReturn_on_to_elifs ==
    /\ pc = "eval"
    /\ top(eval_stack).node.kind = "IfStatement"
    /\ top(eval_stack).stage = "block"
    /\ at_end(top(eval_stack))
    /\ eval_stack' = set_top(eval_stack, [top(eval_stack) EXCEPT !.stage = "elif", !.i = 1])
    /\ ret' = ret
    /\ UNCHANGED <<pc, lexer_vars, parser_vars, compile_vars, run_vars, eval_env, stdout, eval_err>>

\* IfStatement.eval: the block is through, `return True`.
EvalIfBlockReturn ==
    /\ pc = "eval"
    /\ top(eval_stack).node.kind = "IfStatement"
    /\ top(eval_stack).stage = "block"
    /\ at_end(top(eval_stack))
    /\ eval_stack' = pop(eval_stack)
    /\ ret' = TRUE
    /\ UNCHANGED <<pc, lexer_vars, parser_vars, compile_vars, run_vars, eval_env, stdout, eval_err>>

\* IfStatement.eval: `node.eval(env)` on the next of elseif_statements.
EvalElif ==
    /\ pc = "eval"
    /\ top(eval_stack).node.kind = "IfStatement"
    /\ top(eval_stack).stage = "elif"
    /\ top(eval_stack).i <= Len(top(eval_stack).node.elseif_statements)
    /\ EvalIfEnter(top(eval_stack).node.elseif_statements[top(eval_stack).i],
                   set_top(eval_stack, [top(eval_stack) EXCEPT !.stage = "elif_called"]))
    /\ UNCHANGED <<lexer_vars, parser_vars, compile_vars, run_vars>>

\* IfStatement.eval: `if node.eval(env): return True`, once that eval is back.
EvalElifReturned ==
    /\ pc = "eval"
    /\ top(eval_stack).node.kind = "IfStatement"
    /\ top(eval_stack).stage = "elif_called"
    /\ IF ret
       THEN /\ eval_stack' = pop(eval_stack)
            /\ ret' = TRUE
       ELSE /\ eval_stack' = set_top(eval_stack,
                                     [top(eval_stack) EXCEPT !.stage = "elif", !.i = @ + 1])
            /\ ret' = ret
    /\ UNCHANGED <<pc, lexer_vars, parser_vars, compile_vars, run_vars, eval_env, stdout, eval_err>>

\* IfStatement.eval: no elif returned True, on to the else block.
EvalElse ==
    /\ pc = "eval"
    /\ top(eval_stack).node.kind = "IfStatement"
    /\ top(eval_stack).stage = "elif"
    /\ top(eval_stack).i > Len(top(eval_stack).node.elseif_statements)
    /\ eval_stack' = set_top(eval_stack, [top(eval_stack) EXCEPT !.stage = "else", !.i = 1])
    /\ UNCHANGED <<pc, lexer_vars, parser_vars, compile_vars, run_vars, eval_env, ret, stdout, eval_err>>

\* IfStatement.eval: the else block is through, `return False`.
EvalElseReturn ==
    /\ pc = "eval"
    /\ top(eval_stack).node.kind = "IfStatement"
    /\ top(eval_stack).stage = "else"
    /\ at_end(top(eval_stack))
    /\ eval_stack' = pop(eval_stack)
    /\ ret' = FALSE
    /\ UNCHANGED <<pc, lexer_vars, parser_vars, compile_vars, run_vars, eval_env, stdout, eval_err>>

\* Repeat.eval called on a statement of a list: range(self.times.eval(env))
\* is built, once.
EvalRepeat ==
    /\ pc = "eval"
    /\ eval_child(top(eval_stack))
    /\ child(top(eval_stack)).kind = "Repeat"
    /\ LET node == child(top(eval_stack))
           r == eval(node.times, eval_env)
       IN  IF r.err # "" THEN EvalRaise(r.err, r.out)
           ELSE /\ eval_stack' = Append(set_top(eval_stack, step(top(eval_stack))),
                                        Frame(node, "block", 1, range_len(r.value), 0))
                /\ stdout' = stdout \o r.out
                /\ UNCHANGED <<pc, eval_env, ret, eval_err>>
    /\ UNCHANGED <<lexer_vars, parser_vars, compile_vars, run_vars>>

\* Repeat.eval: a turn of the body is through.
EvalRepeatNext ==
    /\ pc = "eval"
    /\ top(eval_stack).node.kind = "Repeat"
    /\ ~Repeat_done(top(eval_stack), eval_env)
    /\ at_end(top(eval_stack))
    /\ eval_stack' = set_top(eval_stack, [top(eval_stack) EXCEPT !.it = @ + 1, !.i = 1])
    /\ UNCHANGED <<pc, lexer_vars, parser_vars, compile_vars, run_vars, eval_env, ret, stdout, eval_err>>

\* Repeat.eval: the range is exhausted.
EvalRepeatReturn ==
    /\ pc = "eval"
    /\ Repeat_done(top(eval_stack), eval_env)
    /\ eval_stack' = pop(eval_stack)
    /\ UNCHANGED <<pc, lexer_vars, parser_vars, compile_vars, run_vars, eval_env, ret, stdout, eval_err>>

\* Module.eval returns.
EvalModuleReturn ==
    /\ pc = "eval"
    /\ top(eval_stack).node.kind = "Module"
    /\ at_end(top(eval_stack))
    /\ eval_stack' = <<>>
    /\ pc' = "compiler"
    /\ UNCHANGED <<lexer_vars, parser_vars, compile_vars, run_vars, eval_env, ret, stdout, eval_err>>

(***************************************************************************)
(* ast.py: rendering.  The text an expression compiles to is kept as the   *)
(* sequence of its lexemes (numbers, names and symbols, in order), the     *)
(* text of a statement as a record for each line it emits.                 *)
(***************************************************************************)
Num(v) == [t |-> "num", v |-> v]

Id(name) == [t |-> "id", s |-> name]

Sym(s) == [t |-> "sym", s |-> s]

Text(lexemes) == [err |-> "", code |-> lexemes]

CompileError(err) == [err |-> err, code |-> <<>>]

\* ArithmeticOp.compile: `self.op in "*/" and getattr(self.right, "op", "None") in "+-"`
parenthesize_right(node) ==
    /\ node.op \in {"*", "/"}
    /\ node.right.kind \in {"ArithmeticOp", "CompOp"}
    /\ node.right.op \in {"+", "-"}

\* Reference.compile, Literal.compile, ArithmeticOp.compile, CompOp.compile and
\* Ternary.compile of a node that is not standalone: [err, code].
RECURSIVE compile(_, _)
compile(node, env) ==
    CASE node.kind = "Reference" ->
           IF unbound(env, node.name) THEN CompileError(NotFound(node.name))
           ELSE Text(<<Id(node.name)>>)
      [] node.kind = "Literal" -> Text(<<Num(node.value)>>)
      [] node.kind = "ArithmeticOp" ->
           LET l == compile(node.left, env) IN
           IF l.err # "" THEN l
           ELSE LET r == compile(node.right, env) IN
                IF r.err # "" THEN r
                ELSE IF parenthesize_right(node)
                THEN Text(l.code \o <<Sym(node.op), Sym("(")>> \o r.code \o <<Sym(")")>>)
                ELSE Text(l.code \o <<Sym(node.op)>> \o r.code)
      [] node.kind = "CompOp" ->
           LET l == compile(node.left, env) IN
           IF l.err # "" THEN l
           ELSE LET r == compile(node.right, env) IN
                IF r.err # "" THEN r
                ELSE Text(l.code \o <<Sym(node.op)>> \o r.code)
      [] node.kind = "Ternary" ->
           LET c == compile(node.condition, env) IN
           IF c.err # "" THEN c
           ELSE LET t == compile(node.if_truthy, env) IN
                IF t.err # "" THEN t
                ELSE LET f == compile(node.if_falsy, env) IN
                     IF f.err # "" THEN f
                     ELSE Text(c.code \o <<Sym("?")>> \o t.code \o <<Sym(":")>> \o f.code)

\* The line a statement that is an expression compiles to: the printf of a
\* standalone Literal has the value in its format, the others print "%i".
expression_line(node, lexemes, indent) ==
    IF ~node.standalone THEN [kind |-> "expression", indent |-> indent, code |-> lexemes]
    ELSE IF node.kind = "Literal"
    THEN [kind |-> "printf_value", indent |-> indent, value |-> node.value]
    ELSE [kind |-> "printf_i", indent |-> indent, code |-> lexemes]

\* Assignment.compile, lines 149-152: the environment after them.
Assignment_compile_env(node, env) ==
    IF unbound(env, node.name)
    THEN LET r == eval(node.value, env) IN
         IF r.err # "" THEN [err |-> r.err, env |-> env]
         ELSE [err |-> "", env |-> add(env, node.name, r.value)]
    ELSE [err |-> "", env |-> env]

\* An Assignment.compile that declares the name on every assignment.
Assignment_compile_type_always(node, env) == "int "

\* Assignment.compile, lines 149-151: the `type` prefix.
Assignment_compile_type(node, env) == IF unbound(env, node.name) THEN "int " ELSE ""

\* The identifiers Repeat._new_id can return: six letters drawn by
\* random.sample, drawn again while the environment binds them.
LoopIds == {"ijklmn", "uvwxyz"}

_new_id(env) == {id \in LoopIds : unbound(env, id)}

(***************************************************************************)
(* compiler.py: mod.compile(sym_table, indent=0).  The calls of compile on *)
(* statements are kept on a stack of frames [node, stage, i, indent]; the  *)
(* text is emitted in the order of the walk, so `code` grows line by line. *)
(* An exception loses the text: out.c is never written.                    *)
(***************************************************************************)
CFrame(node, stage, i, indent) ==
    [node |-> node, stage |-> stage, i |-> i, indent |-> indent]

CompileRaise(err, env) ==
    /\ compile_err' = err
    /\ compile_env' = env
    /\ code' = <<>>
    /\ compile_stack' = <<>>
    /\ pc' = "done"

\* Module.compile, lines 54-56.
CompileModule ==
    /\ pc = "compiler"
    /\ pc' = "compile"
    /\ code' = <<[kind |-> "prologue", indent |-> 0]>>
    /\ compile_stack' = <<CFrame(mod, "statements", 1, 0)>>
    /\ UNCHANGED <<lexer_vars, parser_vars, eval_vars, run_vars, compile_env, compile_err>>

\* compile of a statement that is an expression.
CompileExpression ==
    /\ pc = "compile"
    /\ at_child(top(compile_stack))
    /\ child(top(compile_stack)).kind \in {"Reference", "Literal", "ArithmeticOp"}
    /\ LET f == top(compile_stack)
           r == compile(child(f), compile_env)
       IN  IF r.err # "" THEN CompileRaise(r.err, compile_env)
           ELSE /\ code' = Append(code, expression_line(child(f), r.code, f.indent + 4))
                /\ compile_stack' = set_top(compile_stack, step(f))
                /\ UNCHANGED <<pc, compile_env, compile_err>>
    /\ UNCHANGED <<lexer_vars, parser_vars, eval_vars, run_vars>>

\* Assignment.compile
CompileAssignment ==
    /\ pc = "compile"
    /\ at_child(top(compile_stack))
    /\ child(top(compile_stack)).kind = "Assignment"
    /\ LET f == top(compile_stack)
           node == child(f)
           type == Assignment_compile_type(node, compile_env)
           e == Assignment_compile_env(node, compile_env)
           r == compile(node.value, e.env)
       IN  IF e.err # "" THEN CompileRaise(e.err, e.env)
           ELSE IF r.err # "" THEN CompileRaise(r.err, e.env)
           ELSE /\ compile_env' = e.env
                /\ code' = Append(code, [kind |-> "assign", indent |-> f.indent + 4,
                                         type |-> type, name |-> node.name,
                                         code |-> r.code])
                /\ compile_stack' = set_top(compile_stack, step(f))
                /\ UNCHANGED <<pc, compile_err>>
    /\ UNCHANGED <<lexer_vars, parser_vars, eval_vars, run_vars>>

\* IfStatement.compile called on a statement of a list: line 212.
CompileIfStatement ==
    /\ pc = "compile"
    /\ at_child(top(compile_stack))
    /\ child(top(compile_stack)).kind = "IfStatement"
    /\ LET f == top(compile_stack)
           node == child(f)
           c == compile(node.condition, compile_env)
       IN  IF c.err # "" THEN CompileRaise(c.err, compile_env)
           ELSE /\ code' = Append(code, [kind |-> "if", indent |-> f.indent + 4,
                                         code |-> c.code])
                /\ compile_stack' = Append(set_top(compile_stack, step(f)),
                                           CFrame(node, "block", 1, f.indent + 4))
                /\ UNCHANGED <<pc, compile_env, compile_err>>
    /\ UNCHANGED <<lexer_vars, parser_vars, eval_vars, run_vars>>

\* IfStatement.compile: the block is through, line 219.
CompileIfBlockEnd ==
    /\ pc = "compile"
    /\ top(compile_stack).node.kind = "IfStatement"
    /\ top(compile_stack).stage = "block"
    /\ at_end(top(compile_stack))
    /\ code' = Append(code, [kind |-> "close", indent |-> top(compile_stack).indent])
    /\ compile_stack' = set_top(compile_stack,
                                [top(compile_stack) EXCEPT !.stage = "elif", !.i = 1])
    /\ UNCHANGED <<pc, lexer_vars, parser_vars, eval_vars, run_vars, compile_env, compile_err>>

\* IfStatement.compile: line 222, "else " and the compile of the next of
\* elseif_statements, whose first line follows on the same line.
CompileElif ==
    /\ pc = "compile"
    /\ top(compile_stack).node.kind = "IfStatement"
    /\ top(compile_stack).stage = "elif"
    /\ top(compile_stack).i <= Len(top(compile_stack).node.elseif_statements)
    /\ LET f == top(compile_stack)
           node == f.node.elseif_statements[f.i]
           c == compile(node.condition, compile_env)
       IN  IF c.err # "" THEN CompileRaise(c.err, compile_env)
           ELSE /\ code' = Append(code, [kind |-> "else_if", indent |-> f.indent,
                                         code |-> c.code])
                /\ compile_stack' = Append(set_top(compile_stack, step(f)),
                                           CFrame(node, "block", 1, f.indent))
                /\ UNCHANGED <<pc, compile_env, compile_err>>
    /\ UNCHANGED <<lexer_vars, parser_vars, eval_vars, run_vars>>

\* IfStatement.compile: line 224 with an else block, line 225.
CompileElse ==
    /\ pc = "compile"
    /\ top(compile_stack).node.kind = "IfStatement"
    /\ top(compile_stack).stage = "elif"
    /\ top(compile_stack).i > Len(top(compile_stack).node.elseif_statements)
    /\ top(compile_stack).node.else_block # <<>>
    /\ code' = Append(code, [kind |-> "else", indent |-> top(compile_stack).indent])
    /\ compile_stack' = set_top(compile_stack,
                                [top(compile_stack) EXCEPT !.stage = "else", !.i = 1])
    /\ UNCHANGED <<pc, lexer_vars, parser_vars, eval_vars, run_vars, compile_env, compile_err>>

\* IfStatement.compile: the else block is through, line 234, and the return.
CompileElseEnd ==
    /\ pc = "compile"
    /\ top(compile_stack).node.kind = "IfStatement"
    /\ top(compile_stack).stage = "else"
    /\ at_end(top(compile_stack))
    /\ code' = Append(code, [kind |-> "close", indent |-> top(compile_stack).indent])
    /\ compile_stack' = pop(compile_stack)
    /\ UNCHANGED <<pc, lexer_vars, parser_vars, eval_vars, run_vars, compile_env, compile_err>>

\* IfStatement.compile: line 224 without an else block, and the return.
CompileIfReturn ==
    /\ pc = "compile"
    /\ top(compile_stack).node.kind = "IfStatement"
    /\ top(compile_stack).stage = "elif"
    /\ top(compile_stack).i > Len(top(compile_stack).node.elseif_statements)
    /\ top(compile_stack).node.else_block = <<>>
    /\ compile_stack' = pop(compile_stack)
    /\ UNCHANGED <<pc, lexer_vars, parser_vars, eval_vars, run_vars, compile_env, code,
                   compile_err>>

\* Repeat.compile, line 257: the bound is the number the expression has in
\* the environment of the rendering.
Repeat_bound(node, env) ==
    LET r == eval(node.times, env) IN
    [err |-> r.err, bound |-> <<Num(r.value)>>]

\* Repeat.compile called on a statement of a list: lines 256-257.
CompileRepeat ==
    /\ pc = "compile"
    /\ at_child(top(compile_stack))
    /\ child(top(compile_stack)).kind = "Repeat"
    /\ \E id_ \in _new_id(compile_env) :
         LET f == top(compile_stack)
             node == child(f)
             b == Repeat_bound(node, compile_env)
         IN  IF b.err # "" THEN CompileRaise(b.err, compile_env)
             ELSE /\ code' = Append(code, [kind |-> "for", indent |-> f.indent + 4,
                                           id |-> id_, bound |-> b.bound])
                  /\ compile_stack' = Append(set_top(compile_stack, step(f)),
                                             CFrame(node, "block", 1, f.indent + 4))
                  /\ UNCHANGED <<pc, compile_env, compile_err>>
    /\ UNCHANGED <<lexer_vars, parser_vars, eval_vars, run_vars>>

\* Repeat.compile: the body is through, line 264, and the return.
CompileRepeatEnd ==
    /\ pc = "compile"
    /\ top(compile_stack).node.kind = "Repeat"
    /\ at_end(top(compile_stack))
    /\ code' = Append(code, [kind |-> "close", indent |-> top(compile_stack).indent])
    /\ compile_stack' = pop(compile_stack)
    /\ UNCHANGED <<pc, lexer_vars, parser_vars, eval_vars, run_vars, compile_env, compile_err>>

\* Module.compile, lines 60-71, and compiler.py writing out.c.
CompileModuleReturn ==
    /\ pc = "compile"
    /\ top(compile_stack).node.kind = "Module"
    /\ at_end(top(compile_stack))
    /\ code' = Append(code, [kind |-> "epilogue", indent |-> 4])
    /\ compile_stack' = <<>>
    /\ pc' = "gcc"
    /\ UNCHANGED <<lexer_vars, parser_vars, eval_vars, run_vars, compile_env, compile_err>>

(***************************************************************************)
(* compiler.py line 35 and the run of ./main: the emitted lines read as C. *)
(* An expression text is parsed with C's precedence (?: below < and >,     *)
(* those below + and -, those below * and /, all binary ones grouping to   *)
(* the left), the lines are grouped into blocks by their braces, gcc       *)
(* rejects a name used outside the block that declares it, and the run     *)
(* prints what the printf lines print.  The names of the loop counters     *)
(* have six letters, as _new_id makes them.                                *)
(***************************************************************************)
c_is_sym(lexemes, i, symbols) ==
    /\ i <= Len(lexemes)
    /\ lexemes[i].t = "sym"
    /\ lexemes[i].s \in symbols

CNode(node, next) == [node |-> node, next |-> next]

RECURSIVE c_primary(_, _), c_binary(_, _, _), c_binary_while(_, _, _, _), c_conditional(_, _)

\* A number, a name or a parenthesized expression at lexemes[i].
c_primary(lexemes, i) ==
    CASE lexemes[i].t = "num" -> CNode(Literal(lexemes[i].v), i + 1)
      [] lexemes[i].t = "id"  -> CNode(Reference(lexemes[i].s), i + 1)
      [] lexemes[i].t = "sym" ->
           LET e == c_conditional(lexemes, i + 1) IN CNode(e.node, e.next + 1)

\* The operators of C's binary levels, loosest first.
c_level(level) ==
    CASE level = 1 -> {"<", ">"}
      [] level = 2 -> {"+", "-"}
      [] level = 3 -> {"*", "/"}

c_binary_while(lexemes, node, i, level) ==
    IF c_is_sym(lexemes, i, c_level(level))
    THEN LET r == c_binary(lexemes, i + 1, level + 1)
             op == lexemes[i].s
         IN  c_binary_while(lexemes,
                            IF level = 1 THEN CompOp(node, op, r.node)
                            ELSE ArithmeticOp(node, op, r.node),
                            r.next, level)
    ELSE CNode(node, i)

c_binary(lexemes, i, level) ==
    IF level > 3 THEN c_primary(lexemes, i)
    ELSE LET l == c_binary(lexemes, i, level + 1) IN
         c_binary_while(lexemes, l.node, l.next, level)

c_conditional(lexemes, i) ==
    LET c == c_binary(lexemes, i, 1) IN
    IF c_is_sym(lexemes, c.next, {"?"})
    THEN LET t == c_conditional(lexemes, c.next + 1)
             f == c_conditional(lexemes, t.next + 1)
         IN  CNode(Ternary(c.node, t.node, f.node), f.next)
    ELSE c

\* The expression a text denotes in C.
c_expression(lexemes) == c_conditional(lexemes, 1).node

\* x / y of C's int, y not 0: the quotient truncated toward zero.
c_div(x, y) ==
    IF (x >= 0) = (y > 0)
    THEN (IF x >= 0 THEN x ELSE -x) \div (IF y > 0 THEN y ELSE -y)
    ELSE -((IF x >= 0 THEN x ELSE -x) \div (IF y > 0 THEN y ELSE -y))

\* The value of an expression of C over the values of the variables.
RECURSIVE c_eval(_, _)
c_eval(node, store) ==
    CASE node.kind = "Literal" -> node.value
      [] node.kind = "Reference" -> store[node.name]
      [] node.kind = "ArithmeticOp" ->
           LET x == c_eval(node.left, store)
               y == c_eval(node.right, store)
           IN  (CASE node.op = "+" -> x + y
                  [] node.op = "-" -> x - y
                  [] node.op = "*" -> x * y
                  [] node.op = "/" -> c_div(x, y))
      [] node.kind = "CompOp" ->
           LET l == c_eval(node.left, store)
               r == c_eval(node.right, store)
           IN  (CASE node.op = "<" -> IF l < r THEN 1 ELSE 0
                  [] node.op = ">" -> IF l > r THEN 1 ELSE 0)
      [] node.kind = "Ternary" ->
           IF c_eval(node.condition, store) # 0 THEN c_eval(node.if_truthy, store)
           ELSE c_eval(node.if_falsy, store)

\* The names an expression text uses.
c_names(lexemes) == {lexemes[i].s : i \in {j \in 1..Len(lexemes) : lexemes[j].t = "id"}}

CItems(items, next) == [items |-> items, next |-> next]

RECURSIVE c_items(_, _, _), c_chain(_, _, _)

\* The statements of the block that starts at lines[i], up to its closing
\* brace (or the end of main): a `for` and an `if` take their blocks with them.
c_items(lines, i, items) ==
    IF i > Len(lines) \/ lines[i].kind \in {"close", "epilogue"}
    THEN CItems(items, i)
    ELSE IF lines[i].kind = "for"
    THEN LET body == c_items(lines, i + 1, <<>>) IN
         c_items(lines, body.next + 1,
                 Append(items, [kind |-> "for", id |-> lines[i].id,
                                bound |-> lines[i].bound, body |-> body.items]))
    ELSE IF lines[i].kind = "if"
    THEN LET body == c_items(lines, i + 1, <<>>)
             chain == c_chain(lines, body.next + 1,
                              [kind |-> "if",
                               branches |-> <<[code |-> lines[i].code, body |-> body.items]>>,
                               else_body |-> <<>>])
         IN  c_items(lines, chain.next, Append(items, chain.items))
    ELSE c_items(lines, i + 1, Append(items, lines[i]))

\* What follows the closing brace of a branch of an if: `else if`, `else`, or
\* the end of the statement.  `items` is the statement built so far.
c_chain(lines, i, item) ==
    IF i <= Len(lines) /\ lines[i].kind = "else_if"
    THEN LET body == c_items(lines, i + 1, <<>>) IN
         c_chain(lines, body.next + 1,
                 [item EXCEPT !.branches =
                      Append(@, [code |-> lines[i].code, body |-> body.items])])
    ELSE IF i <= Len(lines) /\ lines[i].kind = "else"
    THEN LET body == c_items(lines, i + 1, <<>>) IN
         CItems([item EXCEPT !.else_body = body.items], body.next + 1)
    ELSE CItems(item, i)

\* The statements of main, between the prologue and the epilogue.
c_main(lines) == c_items(lines, 2, <<>>).items

\* gcc's check of scopes: [ok, declared], the names declared in the block so
\* far and whether every name used was declared in this block or around it.
RECURSIVE c_scopes(_, _, _), c_branches_ok(_, _, _)
c_scopes(items, i, declared) ==
    IF i > Len(items) THEN [ok |-> TRUE, declared |-> declared]
    ELSE LET item == items[i] IN
      CASE item.kind = "printf_value" -> c_scopes(items, i + 1, declared)
        [] item.kind \in {"printf_i", "expression"} ->
             IF c_names(item.code) \subseteq declared
             THEN c_scopes(items, i + 1, declared)
             ELSE [ok |-> FALSE, declared |-> declared]
        [] item.kind = "assign" ->
             IF /\ c_names(item.code) \subseteq declared
                /\ item.type = "" => item.name \in declared
             THEN c_scopes(items, i + 1, declared \cup {item.name})
             ELSE [ok |-> FALSE, declared |-> declared]
        [] item.kind = "for" ->
             IF /\ c_names(item.bound) \subseteq declared \cup {item.id}
                /\ c_scopes(item.body, 1, declared \cup {item.id}).ok
             THEN c_scopes(items, i + 1, declared)
             ELSE [ok |-> FALSE, declared |-> declared]
        [] item.kind = "if" ->
             IF /\ c_branches_ok(item.branches, 1, declared)
                /\ c_scopes(item.else_body, 1, declared).ok
             THEN c_scopes(items, i + 1, declared)
             ELSE [ok |-> FALSE, declared |-> declared]

c_branches_ok(branches, i, declared) ==
    \/ i > Len(branches)
    \/ /\ c_names(branches[i].code) \subseteq declared
       /\ c_scopes(branches[i].body, 1, declared).ok
       /\ c_branches_ok(branches, i + 1, declared)

\* The run of a block: [store, out], the values of the variables and the
\* lines printed.  A text gcc accepted uses a name only inside the block that
\* declares it, and declares no name twice, so one store serves all blocks.
RECURSIVE c_run(_, _, _, _), c_for(_, _, _, _), c_if(_, _, _, _)
c_run(items, i, store, out) ==
    IF i > Len(items) THEN [store |-> store, out |-> out]
    ELSE LET item == items[i] IN
      CASE item.kind = "printf_value" ->
             c_run(items, i + 1, store, Append(out, item.value))
        [] item.kind = "printf_i" ->
             c_run(items, i + 1, store,
                   Append(out, c_eval(c_expression(item.code), store)))
        [] item.kind = "expression" -> c_run(items, i + 1, store, out)
        [] item.kind = "assign" ->
             c_run(items, i + 1,
                   add(store, item.name, c_eval(c_expression(item.code), store)), out)
        [] item.kind = "for" ->
             LET r == c_for(item, 0, store, out) IN c_run(items, i + 1, r.store, r.out)
        [] item.kind = "if" ->
             LET r == c_if(item, 1, store, out) IN c_run(items, i + 1, r.store, r.out)

\* for (int id = 0; id < bound; id++) body, with id at k.
c_for(item, k, store, out) ==
    IF k < c_eval(c_expression(item.bound), store)
    THEN LET r == c_run(item.body, 1, store, out) IN c_for(item, k + 1, r.store, r.out)
    ELSE [store |-> store, out |-> out]

\* if (...) {...} else if (...) {...} ... else {...}, from its branch i on.
c_if(item, i, store, out) ==
    IF i > Len(item.branches) THEN c_run(item.else_body, 1, store, out)
    ELSE IF c_eval(c_expression(item.branches[i].code), store) # 0
    THEN c_run(item.branches[i].body, 1, store, out)
    ELSE c_if(item, i + 1, store, out)

\* gcc out.c -o main, and ./main when gcc made it.
GccAndRun ==
    /\ pc = "gcc"
    /\ LET main == c_main(code) IN
       IF c_scopes(main, 1, {}).ok
       THEN /\ gcc_err' = FALSE
            /\ main_out' = c_run(main, 1, << >>, <<>>).out
       ELSE /\ gcc_err' = TRUE
            /\ main_out' = <<>>
    /\ pc' = "done"
    /\ UNCHANGED <<lexer_vars, parser_vars, eval_vars, compile_vars>>

(***************************************************************************)
(* The source texts a run starts from.                                     *)
(***************************************************************************)
MaxTextLen == 3

MaxStatements == 3

MaxElif == 2

MaxComparisons == 2

MaxAssigning == 2

\* Every text of up to MaxTextLen characters over an alphabet with a letter,
\* a digit, both kinds of white space, the comment sign and a character the
\* lexer does not accept.
LexAlphabet == {"a", "7", " ", "\n", "#", "$"}

LexTexts == UNION {[1..k -> LexAlphabet] : k \in 1..MaxTextLen}

T_let == <<"l", "e", "t", " ">>

T_repeat == <<"r", "e", "p", "e", "a", "t", " ">>

T_if == <<"i", "f", " ">>

T_elif == <<" ", "e", "l", "i", "f", " ">>

T_else == <<" ", "e", "l", "s", "e", " ">>

\* let <name> = <e>;
let_(name, e) == T_let \o <<name, " ", "=", " ">> \o e \o <<";">>

\* <e>;
print_(e) == e \o <<";">>

\* { <body> }
block_(body) == <<"{", " ">> \o body \o <<" ", "}">>

\* repeat <e> { <body> }
repeat_(e, body) == T_repeat \o e \o <<" ">> \o block_(body)

\* if <c> { <body> }
if_(c, body) == T_if \o c \o <<" ">> \o block_(body)

\* The statements the programs are made of: assignments of two values to
\* one name, prints, a repeat whose body assigns the name its bound reads
\* and prints 7 on every turn, that repeat inside another one, a repeat that
\* never runs its body, and a conditional that assigns in both branches.
StatementTexts ==
    { let_("n", <<"1">>),
      let_("n", <<"2">>),
      print_(<<"n">>),
      print_(<<"m">>),
      repeat_(<<"n">>, let_("n", <<"n", " ", "-", " ", "1">>) \o <<" ">> \o print_(<<"7">>)),
      repeat_(<<"2">>,
              repeat_(<<"n">>, let_("n", <<"n", " ", "-", " ", "1">>)
                               \o <<" ">> \o print_(<<"7">>))),
      repeat_(<<"0">>, print_(<<"u">>)),
      if_(<<"n", " ", "<", " ", "2">>, let_("m", <<"5">>))
        \o T_else \o block_(let_("m", <<"6">>)) }

\* The programs of k statements.
RECURSIVE ProgramsOf(_)
ProgramsOf(k) ==
    IF k = 1 THEN StatementTexts
    ELSE {p \o <<" ">> \o st : p \in ProgramsOf(k - 1), st \in StatementTexts}

Programs == UNION {ProgramsOf(k) : k \in 1..MaxStatements}

\* let a = 1; let b = 2; let c = 3; <e>;
ArithmeticText(e) ==
    let_("a", <<"1">>) \o <<" ">> \o let_("b", <<"2">>) \o <<" ">>
    \o let_("c", <<"3">>) \o <<" ">> \o print_(e)

ArithmeticOps == {"+", "-", "*"}

\* (a <op1> b) <op2> c, a <op1> (b <op2> c) and a <op1> b <op2> c
grouped_left(op1, op2) == <<"(", "a", " ", op1, " ", "b", ")", " ", op2, " ", "c">>

grouped_right(op1, op2) == <<"a", " ", op1, " ", "(", "b", " ", op2, " ", "c", ")">>

ungrouped(op1, op2) == <<"a", " ", op1, " ", "b", " ", op2, " ", "c">>

ArithmeticTexts ==
    {ArithmeticText(e) :
        e \in UNION {{grouped_left(op1, op2), grouped_right(op1, op2), ungrouped(op1, op2)} :
                        op1 \in ArithmeticOps, op2 \in ArithmeticOps}}

\* let x = 2; let y = <sign><operand>; y;
SignText(sign, operand) ==
    let_("x", <<"2">>) \o <<" ">> \o let_("y", sign \o <<operand>>) \o <<" ">>
    \o print_(<<"y">>)

SignTexts == {SignText(sign, operand) : sign \in {<<>>, <<"+">>, <<"-">>},
                                        operand \in {"x", "5"}}

\* 1 <op> 2 <op> 3 ..., with the given comparison operators.
RECURSIVE comparison_(_)
comparison_(ops) ==
    IF ops = <<>> THEN <<"1">>
    ELSE comparison_(SubSeq(ops, 1, Len(ops) - 1))
         \o <<" ", ops[Len(ops)], " ">> \o <<DigitChar(Len(ops) + 1)>>

ComparisonOps == UNION {[1..k -> {"<", ">"}] : k \in 1..MaxComparisons}

\* if <comparison> { 8; }
ComparisonIfText(ops) == if_(comparison_(ops), print_(<<"8">>))

\* let x = <comparison> ? 4 : 5; x;
ComparisonTernaryText(ops) ==
    let_("x", comparison_(ops) \o <<" ", "?", " ", "4", " ", ":", " ", "5">>)
    \o <<" ">> \o print_(<<"x">>)

ComparisonTexts ==
    {ComparisonIfText(ops) : ops \in ComparisonOps}
    \cup {ComparisonTernaryText(ops) : ops \in ComparisonOps}

\* The conditions of the ternaries and of the conditionals: one that is true,
\* one that is false, one that reads a name never assigned.
ConditionText(c) ==
    CASE c = "true"  -> <<"0", " ", "<", " ", "1">>
      [] c = "false" -> <<"1", " ", "<", " ", "0">>
      [] c = "unresolved" -> <<"u", " ", "<", " ", "1">>

\* let x = <c> ? <a> : <b>; x;
TernaryText(c, a, b) ==
    let_("x", ConditionText(c) \o <<" ", "?", " ", a, " ", ":", " ", b>>)
    \o <<" ">> \o print_(<<"x">>)

TernaryOperands == {"u", "4", "5"}

TernaryTexts ==
    {TernaryText(c, a, b) : c \in {"true", "false"}, a \in TernaryOperands,
                            b \in TernaryOperands}

\* elif <c2> { 2; } elif <c3> { 3; } ...: the elif entries for conds[from..]
RECURSIVE elifs_(_, _)
elifs_(conds, from) ==
    IF from > Len(conds) THEN <<>>
    ELSE T_elif \o ConditionText(conds[from]) \o <<" ">>
         \o block_(print_(<<DigitChar(from)>>)) \o elifs_(conds, from + 1)

\* if <c1> { 1; } elif <c2> { 2; } ... [else { 9; }]
ChainText(conds, has_else) ==
    if_(ConditionText(conds[1]), print_(<<"1">>)) \o elifs_(conds, 2)
    \o (IF has_else THEN T_else \o block_(print_(<<"9">>)) ELSE <<>>)

Chains == UNION {[1..k -> {"true", "false", "unresolved"}] : k \in 1..(MaxElif + 1)}

ChainTexts == {ChainText(conds, has_else) : conds \in Chains, has_else \in BOOLEAN}

\* The statements that assign at every depth: at the top level, in the body
\* of a repeat, and in the block, the elif block and the else block of a
\* conditional.
AssigningTexts ==
    { let_("m", <<"1">>),
      let_("k", <<"6">>),
      repeat_(<<"2">>, let_("m", <<"2">>) \o <<" ">> \o let_("k", <<"3">>)),
      if_(ConditionText("false"), let_("m", <<"3">>))
        \o T_elif \o ConditionText("true") \o <<" ">> \o block_(let_("k", <<"4">>))
        \o T_else \o block_(let_("m", <<"5">>)) }

\* The programs of k assigning statements.
RECURSIVE AssigningOf(_)
AssigningOf(k) ==
    IF k = 1 THEN AssigningTexts
    ELSE {p \o <<" ">> \o st : p \in AssigningOf(k - 1), st \in AssigningTexts}

AssigningPrograms == UNION {AssigningOf(k) : k \in 1..MaxAssigning}

Sources ==
    LexTexts \cup Programs \cup ArithmeticTexts \cup SignTexts \cup ComparisonTexts
    \cup TernaryTexts \cup ChainTexts \cup AssigningPrograms

(***************************************************************************)
(* The run.                                                                *)
(***************************************************************************)
\* Lexer(source_code), with everything else as the two entry points start.
InitWith(src) ==
    /\ pc = "tokenize"
    /\ source_code = src
    /\ pos = Lexer(src).pos
    /\ char = Lexer(src).char
    /\ line = Lexer(src).line
    /\ column = Lexer(src).column
    /\ tokens = <<>>
    /\ lex_err = ""
    /\ parse_err = ""
    /\ mod = NoNode
    /\ eval_env = SymbolTable
    /\ eval_stack = <<>>
    /\ ret = FALSE
    /\ stdout = <<>>
    /\ eval_err = ""
    /\ compile_env = SymbolTable
    /\ compile_stack = <<>>
    /\ code = <<>>
    /\ compile_err = ""
    /\ gcc_err = FALSE
    /\ main_out = <<>>

Next ==
    \/ LexInt
    \/ LexIdentifier
    \/ LexPunctuation
    \/ LexWhitespace
    \/ LexComment
    \/ LexError
    \/ LexReturn
    \/ Parse
    \/ EvalModule
    \/ EvalExpression
    \/ EvalAssignment
    \/ EvalIfStatement
    \/ EvalIfBlockReturn
    \/ EvalElif
    \/ EvalElifReturned
    \/ EvalElse
    \/ EvalElseReturn
    \/ EvalRepeat
    \/ EvalRepeatNext
    \/ EvalRepeatReturn
    \/ EvalModuleReturn
    \/ CompileModule
    \/ CompileExpression
    \/ CompileAssignment
    \/ CompileIfStatement
    \/ CompileIfBlockEnd
    \/ CompileElif
    \/ CompileElse
    \/ CompileElseEnd
    \/ CompileIfReturn
    \/ CompileRepeat
    \/ CompileRepeatEnd
    \/ CompileModuleReturn
    \/ GccAndRun

Init == \E src \in Sources : InitWith(src)

Spec == Init /\ [][Next]_vars

(***************************************************************************)
(* The properties.  A run is past its evaluation once the interpreter has  *)
(* returned or raised, and has run both ways once the emitted program has  *)
(* been built and run.                                                     *)
(***************************************************************************)
parsed == lex_err = "" /\ parse_err = ""

past_parse == pc \notin {"tokenize", "parse"}

past_eval == parsed /\ pc \in {"compiler", "compile", "gcc", "done"}

past_compile == parsed /\ compile_err = "" /\ pc \in {"gcc", "done"}

both_ran == pc = "done" /\ parsed /\ eval_err = "" /\ compile_err = "" /\ ~gcc_err

\* C1: a program without division that evaluation and the rendered program
\* both ran to the end printed the same sequence of lines both ways.
C1_EvalEqualsRenderedRun == both_ran => main_out = stdout

\* The turns of the repeat bodies, each of which prints one 7.
BodyRuns(out) == Cardinality({i \in DOMAIN out : out[i] = 7})

\* let n = <k>; repeat n { let n = n - 1; 7; }
CountdownText(k) ==
    let_("n", <<DigitChar(k)>>) \o <<" ">>
    \o repeat_(<<"n">>, let_("n", <<"n", " ", "-", " ", "1">>) \o <<" ">> \o print_(<<"7">>))

\* C2: the number of turns of a repeat is fixed when the loop is entered, in
\* both modes: evaluating `let n = k; repeat n { let n = n - 1; 7; }` runs
\* the body k times, and whenever both modes ran a program of assignments,
\* prints and repeats the emitted loops ran their bodies as many times as
\* evaluation ran them.
C2_RepeatBoundFixedAtEntry ==
    /\ \A k \in 1..2 :
         (source_code = CountdownText(k) /\ past_eval)
            => (eval_err = "" /\ BodyRuns(stdout) = k)
    /\ (source_code \in Programs /\ both_ran) => BodyRuns(main_out) = BodyRuns(stdout)

\* C3: a parsed program fails with the unresolved-identifier error in
\* evaluation exactly when it fails with it in rendering, and for the same
\* name.
C3_UnresolvedIdentical == (pc = "done" /\ parsed) => eval_err = compile_err

\* C4: evaluating `let x = c ? a : b;` evaluates c and the branch c selects
\* only: an unassigned name in the other branch raises nothing and x is bound
\* to the value of the selected branch, while an unassigned name in the
\* selected branch raises.
C4_TernaryShortCircuit ==
    (past_eval /\ source_code \in TernaryTexts) =>
    \A c \in {"true", "false"}, a \in TernaryOperands, b \in TernaryOperands :
        source_code = TernaryText(c, a, b)
           => LET taken == IF c = "true" THEN a ELSE b IN
              IF taken = "u"
              THEN eval_err = NotFound("u") /\ unbound(eval_env, "x")
              ELSE /\ eval_err = ""
                   /\ ~unbound(eval_env, "x")
                   /\ eval_env["x"] = DigitValue(taken)

C4_Witness ==
    /\ source_code = TernaryText("false", "u", "4")
    /\ pc = "done"
    /\ eval_err = ""
    /\ ~unbound(eval_env, "x")
    /\ eval_env["x"] = 4

\* The text of the fourth statement of an ArithmeticText, as rendered.
RenderedExpression == code[5].code

\* C5: rendering keeps the grouping of mixed-precedence arithmetic:
\* `(a + b) * c` renders with parentheses around `a + b`, `a * (b + c)` with
\* parentheses around `b + c`, and `a * b + c` with none.
C5_RenderingKeepsGrouping ==
    \A op \in {"+", "-"} :
      /\ (source_code = ArithmeticText(grouped_left(op, "*")) /\ past_compile)
            => RenderedExpression = <<Sym("("), Id("a"), Sym(op), Id("b"), Sym(")"),
                                      Sym("*"), Id("c")>>
      /\ (source_code = ArithmeticText(grouped_right("*", op)) /\ past_compile)
            => RenderedExpression = <<Id("a"), Sym("*"), Sym("("), Id("b"), Sym(op),
                                      Id("c"), Sym(")")>>
      /\ (source_code = ArithmeticText(ungrouped("*", op)) /\ past_compile)
            => RenderedExpression = <<Id("a"), Sym("*"), Id("b"), Sym(op), Id("c")>>

\* The first condition of a chain that is not false, 0 when all are.
RECURSIVE first_not_false(_, _)
first_not_false(conds, i) ==
    IF i > Len(conds) THEN 0
    ELSE IF conds[i] # "false" THEN i
    ELSE first_not_false(conds, i + 1)

\* C6: evaluating `if c1 {1;} elif c2 {2;} ... [else {9;}]` as parsed runs
\* the block of the first true condition and no other, evaluates no
\* condition after that one (an unassigned name there raises nothing, one
\* before it raises), and runs the else block exactly when no condition is
\* true.
C6_FirstTrueBranchOnly ==
    (past_eval /\ source_code \in ChainTexts) =>
    \A conds \in Chains, has_else \in BOOLEAN :
        source_code = ChainText(conds, has_else)
           => LET i == first_not_false(conds, 1) IN
              IF i = 0
              THEN eval_err = "" /\ stdout = (IF has_else THEN <<9>> ELSE <<>>)
              ELSE IF conds[i] = "true"
              THEN eval_err = "" /\ stdout = <<i>>
              ELSE eval_err = NotFound("u") /\ stdout = <<>>

C6_Witness ==
    /\ source_code = ChainText(<<"false", "true", "unresolved">>, TRUE)
    /\ pc = "done"
    /\ eval_err = ""
    /\ stdout = <<2>>

\* C7: a comparison with more than one comparison operator, as the
\* condition of an if or of an assignment's ternary, is rejected by the
\* parser and no tree is built.
C7_ChainedComparisonRejected ==
    \A ops \in ComparisonOps :
        (/\ Len(ops) > 1
         /\ source_code \in {ComparisonIfText(ops), ComparisonTernaryText(ops)}
         /\ lex_err = ""
         /\ past_parse)
           => (parse_err # "" /\ mod = NoNode)

\* The newlines among the first p characters, and the place of the last.
newlines(src, p) == {j \in 1..p : src[j] = "\n"}

last_newline(src, p) ==
    IF newlines(src, p) = {} THEN 0
    ELSE CHOOSE j \in newlines(src, p) : \A k \in newlines(src, p) : k <= j

\* C8: every token the lexer appends carries the 1-based place of its first
\* character: the line is 1 plus the newlines before it, the col 1 plus the
\* characters between the start of that line and it.
C8_TokenPositions ==
    [][Len(tokens') > Len(tokens)
         => /\ tokens'[Len(tokens')].line = 1 + Cardinality(newlines(source_code, pos))
            /\ tokens'[Len(tokens')].col = 1 + (pos - last_newline(source_code, pos))]_vars

\* The walk whose stack goes from `stack` to `stack_` has just processed
\* the assignment that was its next statement.
assignment_processed(stack, stack_) ==
    /\ stack # <<>>
    /\ at_child(top(stack))
    /\ child(top(stack)).kind = "Assignment"
    /\ stack_ = set_top(stack, step(top(stack)))

\* The environment `env_` binds the name of the assignment to the value its
\* right-hand side has in `env`.
binds_value(node, env, env_) ==
    /\ ~unbound(env_, node.name)
    /\ env_[node.name] = eval(node.value, env).value

\* C9: in evaluation and in rendering alike the names of the environment
\* never get fewer, and once an assignment `let x = e;` is processed the
\* environment binds x to the value of e.
C9_EnvironmentLastWriteWins ==
    [][/\ DOMAIN eval_env \subseteq DOMAIN eval_env'
       /\ DOMAIN compile_env \subseteq DOMAIN compile_env'
       /\ (pc = "eval" /\ assignment_processed(eval_stack, eval_stack'))
             => binds_value(child(top(eval_stack)), eval_env, eval_env')
       /\ (pc = "compile" /\ assignment_processed(compile_stack, compile_stack'))
             => binds_value(child(top(compile_stack)), compile_env, compile_env')]_vars

\* The right-hand side of the second statement of a SignText, as parsed.
SignedOperand == mod.statements[2].value

\* C10: a sign in front of a literal or a name keeps the operand: `-5`
\* parses to the literal -5, `+x` to a reference to x, and `-x` evaluates to
\* the negation of the value of x.
C10_UnarySignKeepsOperand ==
    /\ (source_code = SignText(<<"-">>, "5") /\ parsed /\ past_parse)
          => (SignedOperand.kind = "Literal" /\ SignedOperand.value = -5)
    /\ (source_code = SignText(<<"+">>, "x") /\ parsed /\ past_parse)
          => (SignedOperand.kind = "Reference" /\ SignedOperand.name = "x")
    /\ (source_code = SignText(<<"-">>, "x") /\ past_eval)
          => (/\ eval_err = ""
              /\ ~unbound(eval_env, "y")
              /\ eval_env["y"] = 0 - eval_env["x"])

\* The lines of `code` before line i that assign the name `name`.
assigned_before(name, i) ==
    {j \in 1..(i - 1) : code[j].kind = "assign" /\ code[j].name = name}

\* C11: in the text rendered so far from a fresh environment, an assignment
\* line carries the prefix 'int ' exactly when no earlier line assigns its
\* name, at whatever depth the two assignments are.
C11_IntPrefixOncePerName ==
    \A i \in DOMAIN code :
        code[i].kind = "assign"
           => (code[i].type = "int " <=> assigned_before(code[i].name, i) = {})

\* A name first assigned inside a block and assigned again later.
C11_Witness ==
    /\ pc = "done"
    /\ source_code \in AssigningPrograms
    /\ \E i \in DOMAIN code :
         /\ code[i].kind = "assign"
         /\ code[i].indent > 4
         /\ code[i].type = "int "
         /\ \E j \in DOMAIN code :
              /\ j > i
              /\ code[j].kind = "assign"
              /\ code[j].name = code[i].name
              /\ code[j].type = ""

====
